---- MODULE Spec2Model ----
(***************************************************************************)
(* Link prediction query module (python/link_prediction): the conversion   *)
(* of the property graph into a DGL edge-list graph with dense node        *)
(* indices, the train/validation split of preprocess, and the predict      *)
(* procedure that adds a probe edge to the process-wide graph, scores it   *)
(* and removes it again; the stored parameters and the epoch loop of the   *)
(* training; the globals of node_classification; and the listing of the    *)
(* vertex pairs of a spanning tree in igraphalg.                           *)
(*                                                                         *)
(* Python's None is the record with isNone = TRUE.  Edge ids and node      *)
(* indices are 0-based as in the code; a sequence holds the element with   *)
(* id i at position i + 1.                                                 *)
(***************************************************************************)
EXTENDS Integers, Sequences, FiniteSets, TLC

(***************************************************************************)
(* Bounds of the model.                                                    *)
(***************************************************************************)
\* edges of the property graph
MaxEdges == 3
\* candidate output streams of the seeded generator
NumStreams == 2
\* vertices that predict is asked about
ProbeV == 2
\* probe edges a failed predict call may leave behind before the next train
MaxStray == 1

\* largest integer a caller gives for num_epochs and tr_acc_patience
MaxParam == 1

\* epochs link_prediction_util.train is asked for
MaxEpochs == 6
\* largest tr_acc_patience it is given
MaxPatience == 2
\* validation accuracy takes the values 0/MaxAcc .. MaxAcc/MaxAcc
MaxAcc == 2
\* names in a metrics list
MaxMetrics == 1
\* largest console_log_freq
MaxFreq == 2

\* rows node_classification.train may leave in logged_data
MaxLog == 3

\* The split ratios a caller sets are quarters, 0.0, 0.25, 0.5 and 1.5: binary
\* fractions, on which the double arithmetic len(eids) * (1 - split_ratio) of
\* preprocess is exact.
RatioDen == 2 * 2
RatioNums == {0, 1, 2, 6}

\* random.seed / np.random.seed / torch.manual_seed argument
Seed == 717112397


(***************************************************************************)
(* Generic helpers.                                                        *)
(***************************************************************************)
Range(s) == {s[i] : i \in DOMAIN s}

SetMax(S) == CHOOSE x \in S : \A y \in S : y <= x

\* Python's seq[:k] for any integer k (a negative k counts from the end).
PyHead(s, k) ==
    LET n == Len(s)
        stop == IF k >= 0 THEN (IF k < n THEN k ELSE n)
                ELSE (IF n + k > 0 THEN n + k ELSE 0)
    IN SubSeq(s, 1, stop)

\* the slice [k:] forgotten: the whole sequence
PyTailAll(s, k) == s

\* Python's seq[k:] for any integer k.
PyTail(s, k) ==
    LET n == Len(s)
        start == IF k >= 0 THEN (IF k < n THEN k ELSE n)
                 ELSE (IF n + k > 0 THEN n + k ELSE 0)
    IN SubSeq(s, start + 1, n)

\* Python's round(): round half to even of the rational p / q, q > 0.
PyRound(p, q) ==
    LET fl == p \div q
        twice == 2 * (p - fl * q)
    IN IF twice < q THEN fl
       ELSE IF twice > q THEN fl + 1
       ELSE IF fl % 2 = 0 THEN fl ELSE fl + 1

\* int() taken for round()
PyIntRounds(p, q) == PyRound(p, q)

\* Python's int(): truncation toward zero of the rational p / q, q > 0.
PyInt(p, q) == IF p >= 0 THEN p \div q ELSE -((-p) \div q)

(***************************************************************************)
(* State.                                                                  *)
(***************************************************************************)
VARIABLES
    view,          \* the property graph: its edges in iteration order
    twister,       \* which output stream the generator yields for a seed
    np_random,     \* numpy's global generator: [seed, pos]
    split_ratio,   \* link_prediction_parameters.split_ratio: [num, den]
    graph,         \* global graph
    new_to_old,    \* global new_to_old
    old_to_new,    \* global old_to_new
    model,         \* global model: "None" or "module"
    predictor,     \* global predictor: "None" or "module"
    ret,           \* what the last procedure call returned, with predict's locals
    split,         \* what preprocess returned to the last train or benchmark call
    training_results,    \* global training_results: the epochs with a record
    validation_results,  \* global validation_results: the epochs with a record
    featureless,   \* the vertices with no value under node_features_property
    calls,         \* the predict calls in progress, one per caller
    probes,        \* per edge of graph, the caller whose probe edge it is (0: none)
    link_prediction_parameters,  \* the stored parameters other than split_ratio
    parameters,    \* the map the last set_model_parameters call was given
    loop,          \* link_prediction_util.train: its arguments, locals and position
    nc,            \* node_classification: its globals and what the last call returned
    mst            \* get_min_span_tree_vertex_pairs: its arguments, locals and position

\* the state of the procedures other than train, benchmark and predict
others == <<link_prediction_parameters, parameters, loop, nc, mst>>

vars == <<view, twister, np_random, split_ratio, graph, new_to_old, old_to_new,
          model, predictor, ret, split, training_results, validation_results,
          featureless, calls, probes, others>>

\* ctx: the property graph a procedure call is given
Ctx == [edges |-> view, featureless |-> featureless]

(***************************************************************************)
(* The property graph view.  A vertex handle is a number of Vertices, the  *)
(* view iterates them in increasing order; view is the sequence of edges   *)
(* <<from_vertex, to_vertex>> in the order of the nested loop over         *)
(* vertices and their out_edges.                                           *)
(***************************************************************************)
\* ctx.graph.vertices: three vertices, enough for two nodes joined in both
\* directions beside a third one, and for a vertex without any edge.
Vertices == {1, 2, 3}

\* int(vertex.properties.get(node_id_property)): the external id.  Ids fall
\* as handles rise, so the dense order differs from the order of the ids.
ExtId(vtx) == 10 * (Cardinality(Vertices) + 1 - vtx)

\* node.properties.get(node_features_property): None when the vertex has no
\* such property, else its value, here one that tells the vertices apart.
Features(ctx, vtx) ==
    IF vtx \in ctx.featureless THEN [isNone |-> TRUE, value |-> <<>>]
    ELSE [isNone |-> FALSE, value |-> <<vtx>>]

SortedBySource(es) == \A i \in 1 .. Len(es) - 1 : es[i][1] <= es[i + 1][1]

Views(maxLen) ==
    UNION {{es \in [1 .. n -> Vertices \X Vertices] : SortedBySource(es)}
           : n \in 0 .. maxLen}

(***************************************************************************)
(* DGL graphs: the node count, the edge list (edge id = position - 1) and  *)
(* the node data stored under node_features_property.                      *)
(***************************************************************************)
None == [isNone |-> TRUE, n |-> 0, edges |-> <<>>, ndata |-> <<>>]

NoMap == [isNone |-> TRUE, map |-> <<>>]

\* num_nodes dropped: the node count taken from the largest index of an edge
DglGraphInferred(edges, n) ==
    [isNone |-> FALSE,
     n |-> IF edges = <<>> THEN 0
           ELSE SetMax({e[1] : e \in Range(edges)} \cup {e[2] : e \in Range(edges)}) + 1,
     edges |-> edges, ndata |-> <<>>]

\* dgl.graph((u, v), num_nodes=n)
DglGraphN(edges, n) == [isNone |-> FALSE, n |-> n, edges |-> edges, ndata |-> <<>>]

\* dgl.graph((u, v)): the node count is one more than the largest index.
DglGraph(edges) ==
    DglGraphN(edges,
              IF edges = <<>> THEN 0
              ELSE SetMax({e[1] : e \in Range(edges)} \cup {e[2] : e \in Range(edges)}) + 1)

NumberOfEdges(g) == Len(g.edges)

\* graph.has_edges_between(u, v)
HasEdgesBetween(g, u, v) == \E i \in 1 .. Len(g.edges) : g.edges[i] = <<u, v>>

\* graph.edge_ids(u, v): the ids of the edges u -> v, of which DGL returns one.
EdgeIds(g, u, v) == {i - 1 : i \in {k \in 1 .. Len(g.edges) : g.edges[k] = <<u, v>>}}

\* graph.add_edges(u, v): the new edge takes the next edge id.
AddEdges(g, u, v) == [g EXCEPT !.edges = Append(@, <<u, v>>)]

RECURSIVE DropIds(_, _, _)
DropIds(edges, ids, i) ==
    IF i > Len(edges) THEN <<>>
    ELSE IF (i - 1) \in ids THEN DropIds(edges, ids, i + 1)
    ELSE <<edges[i]>> \o DropIds(edges, ids, i + 1)

\* nothing removed
RemoveEdgesNone(g, ids) == g

\* remove_edges(eids): the other edges keep their order and are renumbered
\* densely; the node count stays.
RemoveEdges(g, ids) == [g EXCEPT !.edges = DropIds(g.edges, ids, 1)]

(***************************************************************************)
(* _get_dgl_graph_data: the scan that assigns dense indices.               *)
(***************************************************************************)
\* every vertex of the graph given an index before the loop over the edges
BuildStartAllVertices ==
    [new_to_old |-> [i \in 0 .. Cardinality(Vertices) - 1 |-> ExtId(i + 1)],
     old_to_new |-> [id \in {ExtId(v) : v \in Vertices} |->
                        (CHOOSE v \in Vertices : ExtId(v) = id) - 1],
     src_nodes |-> <<>>, dest_nodes |-> <<>>,
     features |-> [i \in 1 .. Cardinality(Vertices) |-> Features(Ctx, i)],
     ind |-> Cardinality(Vertices)]

\* old_to_new not made anew: the scan starts from the global of the last build
BuildStartStale ==
    [new_to_old |-> <<>>,
     old_to_new |-> IF old_to_new.isNone THEN <<>> ELSE old_to_new.map,
     src_nodes |-> <<>>, dest_nodes |-> <<>>, features |-> <<>>, ind |-> 0]

\* Lines 301-306: the locals before the loop, made anew at every call.
BuildStart ==
    [new_to_old |-> <<>>, old_to_new |-> <<>>, src_nodes |-> <<>>,
     dest_nodes |-> <<>>, features |-> <<>>, ind |-> 0]

\* the feature of a new source put in front of the rows instead of behind
BuildSrcPrepends(st, src_id_old, src_features) ==
    IF src_id_old \notin DOMAIN st.old_to_new
    THEN [st EXCEPT !.new_to_old = (st.ind :> src_id_old) @@ @,
                    !.old_to_new = (src_id_old :> st.ind) @@ @,
                    !.src_nodes = Append(@, st.ind),
                    !.features = <<src_features>> \o @,
                    !.ind = @ + 1]
    ELSE [st EXCEPT !.src_nodes = Append(@, st.old_to_new[src_id_old])]

\* Lines 316-323: the source endpoint of one edge.
BuildSrc(st, src_id_old, src_features) ==
    IF src_id_old \notin DOMAIN st.old_to_new
    THEN [st EXCEPT !.new_to_old = (st.ind :> src_id_old) @@ @,
                    !.old_to_new = (src_id_old :> st.ind) @@ @,
                    !.src_nodes = Append(@, st.ind),
                    !.features = Append(@, src_features),
                    !.ind = @ + 1]
    ELSE [st EXCEPT !.src_nodes = Append(@, st.old_to_new[src_id_old])]

\* the destination given a new index without the membership test
BuildDestAlwaysNew(st, dest_id_old, dest_features) ==
    [st EXCEPT !.new_to_old = (st.ind :> dest_id_old) @@ @,
               !.old_to_new = (dest_id_old :> st.ind) @@ @,
               !.dest_nodes = Append(@, st.ind),
               !.features = Append(@, dest_features),
               !.ind = @ + 1]

\* Lines 326-333: the destination endpoint of one edge.
BuildDest(st, dest_id_old, dest_features) ==
    IF dest_id_old \notin DOMAIN st.old_to_new
    THEN [st EXCEPT !.new_to_old = (st.ind :> dest_id_old) @@ @,
                    !.old_to_new = (dest_id_old :> st.ind) @@ @,
                    !.dest_nodes = Append(@, st.ind),
                    !.features = Append(@, dest_features),
                    !.ind = @ + 1]
    ELSE [st EXCEPT !.dest_nodes = Append(@, st.old_to_new[dest_id_old])]

\* the destination of an edge handled before its source
RECURSIVE BuildScanDestFirst(_, _, _)
BuildScanDestFirst(st, ctx, i) ==
    IF i > Len(ctx.edges) THEN st
    ELSE LET edge == ctx.edges[i]
         IN BuildScanDestFirst(BuildSrc(BuildDest(st, ExtId(edge[2]), Features(ctx, edge[2])),
                                        ExtId(edge[1]), Features(ctx, edge[1])),
                               ctx, i + 1)

\* Lines 308-333: the loop over the vertices and their out-edges.
RECURSIVE BuildScan(_, _, _)
BuildScan(st, ctx, i) ==
    IF i > Len(ctx.edges) THEN st
    ELSE LET edge == ctx.edges[i]
         IN BuildScan(BuildDest(BuildSrc(st, ExtId(edge[1]), Features(ctx, edge[1])),
                                ExtId(edge[2]), Features(ctx, edge[2])),
                      ctx, i + 1)

\* a None row turned into a row of zeros
TorchTensorZeroFill(features) ==
    [raises |-> FALSE,
     rows |-> [i \in DOMAIN features |->
                  IF features[i].isNone THEN <<0>> ELSE features[i].value]]

\* Line 334: torch.tensor(features, dtype=torch.float32) raises on a None row.
TorchTensor(features) ==
    IF \E i \in DOMAIN features : features[i].isNone
    THEN [raises |-> TRUE, rows |-> <<>>]
    ELSE [raises |-> FALSE, rows |-> [i \in DOMAIN features |-> features[i].value]]

\* raises: line 334 raised, and nothing is returned.  Line 336 raises as well
\* when the rows of the tensor are not as many as the nodes of the graph.
GetDglGraphData(ctx) ==
    LET st == BuildScan(BuildStart, ctx, 1)
        features == TorchTensor(st.features)
        g == DglGraph([i \in 1 .. Len(ctx.edges) |-> <<st.src_nodes[i], st.dest_nodes[i]>>])
    IN IF features.raises \/ Len(features.rows) # g.n
       THEN [raises |-> TRUE, graph |-> None, new_to_old |-> NoMap, old_to_new |-> NoMap]
       ELSE [raises |-> FALSE,
             graph |-> [g EXCEPT !.ndata = features.rows],
             new_to_old |-> [isNone |-> FALSE, map |-> st.new_to_old],
             old_to_new |-> [isNone |-> FALSE, map |-> st.old_to_new]]

(***************************************************************************)
(* The seeded generator.  np_random is numpy's global generator: the seed  *)
(* it was last given and the number of draws made since.  The bits the     *)
(* Mersenne Twister yields for a seed are not modelled one by one: twister *)
(* selects one of NumStreams output functions, each a fixed function of    *)
(* the seed and the position.                                              *)
(***************************************************************************)
Raw(stream, seed, pos) ==
    (seed % 1000) + (2 * stream + 1) * (pos + 1) * (pos + 2) + 11 * stream + pos \div 2

\* the generator seeded only when it has not been seeded before
SeedGenOnce(rng) == IF rng.seed = Seed THEN rng ELSE [seed |-> Seed, pos |-> 0]

\* np.random.seed(717112397)
SeedGen(rng) == [seed |-> Seed, pos |-> 0]

\* a draw from 0 .. max
RandInterval(stream, rng, max) == Raw(stream, rng.seed, rng.pos) % (max + 1)

\* np.random.permutation: the shuffle swaps x[i] with x[j], j drawn from 0 .. i,
\* for i from n - 1 down to 1.
RECURSIVE Shuffle(_, _, _, _)
Shuffle(x, i, stream, rng) ==
    IF i < 1 THEN x
    ELSE LET j == RandInterval(stream, rng, i)
         IN Shuffle([x EXCEPT ![i + 1] = x[j + 1], ![j + 1] = x[i + 1]],
                    i - 1, stream, [rng EXCEPT !.pos = @ + 1])

Permutation(n, stream, rng) == Shuffle([k \in 1 .. n |-> k - 1], n - 1, stream, rng)

\* one draw too few
ChoiceShort(a, size, stream, rng) ==
    [k \in 1 .. size - 1 |-> RandInterval(stream, [rng EXCEPT !.pos = @ + k - 1], a - 1)]

\* np.random.choice(a, size): size draws from 0 .. a - 1, with replacement.
Choice(a, size, stream, rng) ==
    [k \in 1 .. size |-> RandInterval(stream, [rng EXCEPT !.pos = @ + k - 1], a - 1)]

(***************************************************************************)
(* preprocess: the adjacency matrix and the split.                         *)
(***************************************************************************)
\* sp.coo_matrix((ones, (u, v))).todense(): the shape is inferred from the
\* largest row and column index, repeated entries are summed.
CooToDense(edges) ==
    LET a == SetMax({e[1] : e \in Range(edges)}) + 1
        b == SetMax({e[2] : e \in Range(edges)}) + 1
    IN [rows |-> a, cols |-> b,
        at |-> [c \in (0 .. a - 1) \X (0 .. b - 1) |->
                   Cardinality({k \in 1 .. Len(edges) : edges[k] = c})]]

\* the padding put on the other axis: rows added to the taller matrix
SquarifyOtherAxis(M, val) ==
    LET a == M.rows
        b == M.cols
        rows == IF a > b THEN a + (a - b) ELSE a
        cols == IF a > b THEN b ELSE b + (b - a)
    IN [rows |-> rows, cols |-> cols,
        at |-> [c \in (0 .. rows - 1) \X (0 .. cols - 1) |->
                   IF c[1] < a /\ c[2] < b THEN M.at[c] ELSE val]]

\* squarify(M, val)
Squarify(M, val) ==
    LET a == M.rows
        b == M.cols
        side == IF a > b THEN a ELSE b
    IN [rows |-> side, cols |-> side,
        at |-> [c \in (0 .. side - 1) \X (0 .. side - 1) |->
                   IF c[1] < a /\ c[2] < b THEN M.at[c] ELSE val]]

\* Lines 115-117: the matrix handed to the check.
AdjMatrix(g) == Squarify(CooToDense(g.edges), 0)

\* tests.dgl_adjacency_test.test_adjacency_matrix: the matrix rebuilt from the
\* edge list of the graph equals the given one in every cell.
TestAdjacencyMatrix(g, M) ==
    /\ M.rows = g.n
    /\ M.cols = g.n
    /\ \A c \in (0 .. g.n - 1) \X (0 .. g.n - 1) :
          M.at[c] = Cardinality({k \in 1 .. Len(g.edges) : g.edges[k] = c})

\* The same check with the matrix rebuilt as a 0-1 matrix: a cell is 1 where
\* the graph has an edge and 0 elsewhere.
TestAdjacencyMatrixBinary(g, M) ==
    /\ M.rows = g.n
    /\ M.cols = g.n
    /\ \A c \in (0 .. g.n - 1) \X (0 .. g.n - 1) :
          M.at[c] = IF HasEdgesBetween(g, c[1], c[2]) THEN 1 ELSE 0

\* What the check can return for the matrix preprocess builds of g.  The two
\* ways of rebuilding agree unless g has an edge twice, where the cell is 2.
ConsistencyVerdicts(g) ==
    IF NumberOfEdges(g) = 0 THEN {TRUE}
    ELSE {TestAdjacencyMatrix(g, AdjMatrix(g)), TestAdjacencyMatrixBinary(g, AdjMatrix(g))}

\* 1 - adj_matrix - np.eye(n), cell by cell
AdjNeg(M, c) == 1 - M.at[c] - (IF c[1] = c[2] THEN 1 ELSE 0)

\* rows and columns of the cells swapped
RECURSIVE WhereNonZeroSwapped(_, _)
WhereNonZeroSwapped(M, k) ==
    IF k >= M.rows * M.cols THEN <<>>
    ELSE LET c == <<k \div M.cols, k % M.cols>>
         IN (IF AdjNeg(M, c) # 0 THEN <<<<c[2], c[1]>>>> ELSE <<>>)
            \o WhereNonZeroSwapped(M, k + 1)

\* np.where(adj_neg != 0): the cells in row-major order
RECURSIVE WhereNonZero(_, _)
WhereNonZero(M, k) ==
    IF k >= M.rows * M.cols THEN <<>>
    ELSE LET c == <<k \div M.cols, k % M.cols>>
         IN (IF AdjNeg(M, c) # 0 THEN <<c>> ELSE <<>>) \o WhereNonZero(M, k + 1)

\* int(len(eids) * (1 - split_ratio))
TestSize(nEdges, ratio) == PyInt(nEdges * (ratio.den - ratio.num), ratio.den)

\* the assertions compiled away
SplitAssertOff(nEdges, nNeg, nNodes) == TRUE

\* The assertions of lines 135-136.
SplitAssert(nEdges, nNeg, nNodes) == nEdges + nNeg = nNodes * (nNodes - 1)

\* a failure that still hands back the graph as the training graph
SplitFailPartial(status, g, entry, rng) ==
    [status |-> status, test_size |-> 0, orig |-> g, entry |-> entry, rng |-> rng,
     train_g |-> g, train_pos_g |-> None, train_neg_g |-> None,
     test_pos_g |-> None, test_neg_g |-> None]

\* Lines 120-121 return five None; a raise returns nothing at all.
SplitFail(status, g, entry, rng) ==
    [status |-> status, test_size |-> 0, orig |-> g, entry |-> entry, rng |-> rng,
     train_g |-> None, train_pos_g |-> None, train_neg_g |-> None,
     test_pos_g |-> None, test_neg_g |-> None]

Preprocess(g, ratio, stream, rng0, consistent) ==
    LET seeded == SeedGen(rng0)
        nE == NumberOfEdges(g)
    IN IF nE = 0 THEN SplitFail("raise", g, rng0, seeded)   \* coo_matrix: no shape to infer
       ELSE
       LET adj_matrix == AdjMatrix(g)
       IN IF ~consistent THEN SplitFail("None", g, rng0, seeded)
          ELSE IF adj_matrix.rows # g.n \/ adj_matrix.cols # g.n
               THEN SplitFail("raise", g, rng0, seeded)     \* shapes do not match np.eye
          ELSE
          LET neg == WhereNonZero(adj_matrix, 0)
              eids == Permutation(nE, stream, seeded)
              afterPerm == [seeded EXCEPT !.pos = @ + nE - 1]
              test_size == TestSize(nE, ratio)
              test_ids == PyHead(eids, test_size)
              train_ids == PyTail(eids, test_size)
          IN IF ~SplitAssert(nE, Len(neg), g.n) THEN SplitFail("raise", g, rng0, afterPerm)
             ELSE IF Len(neg) = 0 THEN SplitFail("raise", g, rng0, afterPerm)  \* choice from nothing
             ELSE
             LET neg_eids == Choice(Len(neg), nE, stream, afterPerm)
                 test_neg == PyHead(neg_eids, test_size)
                 train_neg == PyTail(neg_eids, test_size)
             IN [status |-> "ok", test_size |-> test_size, orig |-> g, entry |-> rng0,
                 rng |-> [afterPerm EXCEPT !.pos = @ + nE],
                 train_g |-> RemoveEdges(g, Range(test_ids)),
                 train_pos_g |-> DglGraphN([k \in 1 .. Len(train_ids) |-> g.edges[train_ids[k] + 1]], g.n),
                 train_neg_g |-> DglGraphN([k \in 1 .. Len(train_neg) |-> neg[train_neg[k] + 1]], g.n),
                 test_pos_g |-> DglGraphN([k \in 1 .. Len(test_ids) |-> g.edges[test_ids[k] + 1]], g.n),
                 test_neg_g |-> DglGraphN([k \in 1 .. Len(test_neg) |-> neg[test_neg[k] + 1]], g.n)]

NoSplit == SplitFail("none", None, [seed |-> 0, pos |-> 0], [seed |-> 0, pos |-> 0])

Callers == {1, 2}

\* LinkPredictionParameters.split_ratio: float = 0.8.  For the edge counts of
\* this model, len(eids) * (1 - 0.8) truncates to the same integer in double
\* arithmetic as the exact product does.
DefaultSplitRatio == [num |-> 4, den |-> 5]

Ret(op, status) == [op |-> op, status |-> status, edge_added |-> FALSE]

\* the return of a predict call, with its local edge_added
RetPredict(status, edge_added) ==
    [op |-> "predict", status |-> status, edge_added |-> edge_added]

\* A predict call: where it is, its locals, and whose probe edge (0: an edge
\* of the trained graph, -1: none yet) it scored and removed.
IdleCall == [pc |-> "idle", src_id |-> -1, dest_id |-> -1, edge_added |-> FALSE,
             edge_id |-> -1, scored |-> -1, removed |-> -1]

NoProbes == [owner |-> <<>>, overlapped |-> FALSE]

Unseeded == [seed |-> 0, pos |-> 0]

(***************************************************************************)
(* The stored parameters.  Of the seventeen fields of                      *)
(* LinkPredictionParameters the model follows four, one of each kind: an   *)
(* integer read early, the float, a string, and the integer read last;     *)
(* _validate_user_parameters reads the other thirteen the same way, and a  *)
(* call is taken to give each of them a valid value.                       *)
(***************************************************************************)
ParamKeys == {"num_epochs", "split_ratio", "device_type", "tr_acc_patience"}

\* num_epochs: int = 100, device_type: str = "cpu", tr_acc_patience: int = 5
DefaultParameters == [num_epochs |-> 100, device_type |-> "cpu", tr_acc_patience |-> 5]

\* str.lower() on the strings of this model
Lower(str) ==
    CASE str = "CPU" -> "cpu"
      [] str = "LOSS" -> "loss"
      [] str = "F1" -> "f1"
      [] OTHER -> str

DeviceTypes == {"CPU", "cuda"}

\* The maps a caller can pass: the keys it gives, their values, whether a
\* key that is no field of LinkPredictionParameters is among them, and the
\* given keys that parameters.items() yields before that one: none of them
\* or all of them.
ParameterValues(given) ==
    [num_epochs : IF "num_epochs" \in given THEN 0 .. MaxParam
                  ELSE {DefaultParameters.num_epochs},
     split_ratio : IF "split_ratio" \in given
                   THEN {[num |-> k, den |-> RatioDen] : k \in {0, 2}}
                   ELSE {DefaultSplitRatio},
     device_type : IF "device_type" \in given THEN DeviceTypes
                   ELSE {DefaultParameters.device_type},
     tr_acc_patience : IF "tr_acc_patience" \in given THEN 0 .. MaxParam
                       ELSE {DefaultParameters.tr_acc_patience}]

ParameterMaps ==
    UNION {UNION {{[given |-> given, val |-> val, unknown |-> FALSE, before |-> {}]}
                  \cup {[given |-> given, val |-> val, unknown |-> TRUE, before |-> before]
                        : before \in {{}, given}}
                  : val \in ParameterValues(given)}
           : given \in SUBSET ParamKeys}

NoParameters ==
    [given |-> {}, unknown |-> FALSE, before |-> {},
     val |-> [num_epochs |-> DefaultParameters.num_epochs,
              split_ratio |-> DefaultSplitRatio,
              device_type |-> DefaultParameters.device_type,
              tr_acc_patience |-> DefaultParameters.tr_acc_patience]]

\* link_prediction_util.train is not running
IdleLoop ==
    [pc |-> "idle", num_epochs |-> 0, tr_acc_patience |-> 0, console_log_freq |-> 0,
     metrics |-> <<>>, epoch |-> 0, max_val_acc |-> -1, num_val_acc_drop |-> 0,
     stopped |-> FALSE, steps |-> 0, acc_vals |-> <<>>,
     training_results |-> <<>>, validation_results |-> <<>>]

\* node_classification at import: global_params is only annotated (line 83),
\* so the name is not bound; logged_data is the empty list; Modelling.data is
\* None.  console_log_freq: 5 and num_epochs: 100 are the DEFAULT_VALUES.
NcNoParams == [defined |-> FALSE, console_log_freq |-> 5, num_epochs |-> 100]

NcRet(op, status, rows) == [op |-> op, status |-> status, rows |-> rows]

NcInit ==
    [global_params |-> NcNoParams, data |-> FALSE, logged_data |-> <<>>,
     ret |-> NcRet("none", "none", <<>>)]

\* get_min_span_tree_vertex_pairs is not running
IdleMst ==
    [pc |-> "idle", tree |-> <<>>, i |-> 0, unique_edges_dict |-> {},
     not_isolated_vertex_directed |-> {}, min_span_tree |-> <<>>]

InitOthers ==
    /\ link_prediction_parameters = DefaultParameters
    /\ parameters = NoParameters
    /\ loop = IdleLoop
    /\ nc = NcInit
    /\ mst = IdleMst

Init ==
    /\ view \in Views(MaxEdges)
    /\ twister \in 0 .. NumStreams - 1
    /\ np_random = Unseeded
    /\ split_ratio = DefaultSplitRatio
    /\ graph = None
    /\ new_to_old = NoMap
    /\ old_to_new = NoMap
    /\ model = "None"
    /\ predictor = "None"
    /\ ret = Ret("none", "none")
    /\ split = NoSplit
    /\ training_results = <<>>
    /\ validation_results = <<>>
    /\ featureless = {}
    /\ calls = [c \in Callers |-> IdleCall]
    /\ probes = NoProbes
    /\ InitOthers

\* The globals of link_prediction at import, for the procedures that read no
\* property graph.
InitQuiet ==
    /\ view = <<>>
    /\ twister = 0
    /\ np_random = Unseeded
    /\ split_ratio = DefaultSplitRatio
    /\ graph = None
    /\ new_to_old = NoMap
    /\ old_to_new = NoMap
    /\ model = "None"
    /\ predictor = "None"
    /\ ret = Ret("none", "none")
    /\ split = NoSplit
    /\ training_results = <<>>
    /\ validation_results = <<>>
    /\ featureless = {}
    /\ calls = [c \in Callers |-> IdleCall]
    /\ probes = NoProbes

(***************************************************************************)
(* set_model_parameters, for the key split_ratio.                          *)
(***************************************************************************)
\* _validate_user_parameters, lines 375-378
ValidSplitRatio(ratio) == ratio.num > 0

SetModelParameters(ratio) ==
    /\ IF ValidSplitRatio(ratio)
       THEN /\ split_ratio' = ratio
            /\ ret' = Ret("set_model_parameters", "ok")
       ELSE /\ split_ratio' = split_ratio
            /\ ret' = Ret("set_model_parameters", "failed")
    /\ split' = NoSplit
    /\ UNCHANGED <<view, twister, np_random, graph, new_to_old, old_to_new,
                   model, predictor, training_results, validation_results,
                   featureless, calls, probes, others>>

(***************************************************************************)
(* set_model_parameters, for a map of any keys.                            *)
(***************************************************************************)
\* _validate_user_parameters reads parameters[key] for one key after the
\* other, which raises KeyError for a key the map does not have, and returns
\* False at the first value that fails its check.  torch.device is a class
\* and never equals "cuda", so line 392 rejects every device but cpu.
ValidateUserParameters(p) ==
    IF "num_epochs" \notin p.given THEN "KeyError"
    ELSE IF p.val.num_epochs <= 0 THEN "False"
    ELSE IF "split_ratio" \notin p.given THEN "KeyError"
    ELSE IF ~ValidSplitRatio(p.val.split_ratio) THEN "False"
    ELSE IF "device_type" \notin p.given THEN "KeyError"
    ELSE IF Lower(p.val.device_type) # "cpu" THEN "False"
    ELSE IF "tr_acc_patience" \notin p.given THEN "KeyError"
    ELSE IF p.val.tr_acc_patience <= 0 THEN "False"
    ELSE "True"

\* Lines 127-130
DeviceHandling(device_type, cuda_is_available) ==
    IF device_type = "cuda" /\ cuda_is_available THEN "cuda" ELSE "cpu"

\* Lines 118-124: the keys are set one after the other, and the loop returns
\* at the first key that is no attribute, with the earlier keys already set.
SetModelParametersMap(p) ==
    /\ parameters' = p
    /\ \E validation_status \in {ValidateUserParameters(p)} :
       IF validation_status # "True"
       THEN /\ ret' = Ret("set_model_parameters",
                          IF validation_status = "KeyError" THEN "raise" ELSE "failed")
            /\ UNCHANGED <<link_prediction_parameters, split_ratio>>
       ELSE
       LET set == IF p.unknown THEN p.before ELSE p.given
           written == [num_epochs |-> IF "num_epochs" \in set THEN p.val.num_epochs
                                      ELSE link_prediction_parameters.num_epochs,
                       device_type |-> IF "device_type" \in set THEN p.val.device_type
                                       ELSE link_prediction_parameters.device_type,
                       tr_acc_patience |-> IF "tr_acc_patience" \in set
                                           THEN p.val.tr_acc_patience
                                           ELSE link_prediction_parameters.tr_acc_patience]
       IN /\ split_ratio' = IF "split_ratio" \in set THEN p.val.split_ratio
                            ELSE split_ratio
          /\ IF p.unknown
             THEN /\ link_prediction_parameters' = written
                  /\ ret' = Ret("set_model_parameters", "failed")
             ELSE /\ \E cuda_is_available \in BOOLEAN :
                       link_prediction_parameters' =
                           [written EXCEPT !.device_type =
                                DeviceHandling(@, cuda_is_available)]
                  /\ ret' = Ret("set_model_parameters", "ok")
    /\ UNCHANGED <<view, twister, np_random, graph, new_to_old, old_to_new, model,
                   predictor, split, training_results, validation_results,
                   featureless, calls, probes, loop, nc, mst>>

(***************************************************************************)
(* train.  trained is whether link_prediction_util.train returns (the      *)
(* model, predictor, optimizer and metric code may raise: their inputs are *)
(* not part of this model).                                                *)
(***************************************************************************)
\* link_prediction_util.train appends a record to both lists at each epoch
\* that console_log_freq divides: here the first one.
LoggedEpochs == <<1>>

\* _reset_train_predict_parameters empties both result lists and leaves
\* graph, model and predictor None; train then binds graph and both maps
\* before it calls preprocess.
Train(trained) ==
    \E data \in {GetDglGraphData(Ctx)} :
       IF data.raises
       THEN /\ graph' = None
            /\ model' = "None"
            /\ predictor' = "None"
            /\ training_results' = <<>>
            /\ validation_results' = <<>>
            /\ split' = NoSplit
            /\ ret' = Ret("train", "raise")
            /\ UNCHANGED <<view, twister, np_random, split_ratio, new_to_old,
                           old_to_new, featureless, calls, probes, others>>
       ELSE
       \E consistent \in ConsistencyVerdicts(data.graph) :
       \E sp \in {Preprocess(data.graph, split_ratio, twister, np_random, consistent)} :
       LET fitted == sp.status = "ok" /\ trained
       IN /\ graph' = data.graph
          /\ new_to_old' = data.new_to_old
          /\ old_to_new' = data.old_to_new
          /\ np_random' = sp.rng
          /\ split' = sp
          /\ model' = IF fitted THEN "module" ELSE "None"
          /\ predictor' = IF fitted THEN "module" ELSE "None"
          /\ training_results' = IF fitted THEN LoggedEpochs ELSE <<>>
          /\ validation_results' = IF fitted THEN LoggedEpochs ELSE <<>>
          /\ ret' = Ret("train", IF fitted THEN "ok"
                                 ELSE IF sp.status = "None" THEN "failed" ELSE "raise")
          /\ UNCHANGED <<view, twister, split_ratio, featureless, calls, probes, others>>

(***************************************************************************)
(* benchmark: graph is a local there, so the global stays None after the   *)
(* reset; the name benchmark is the procedure itself by the time it runs,  *)
(* so benchmark.get_avg_seed_results raises.                               *)
(***************************************************************************)
Benchmark ==
    \E data \in {GetDglGraphData(Ctx)} :
       IF data.raises
       THEN /\ graph' = None
            /\ model' = "None"
            /\ predictor' = "None"
            /\ training_results' = <<>>
            /\ validation_results' = <<>>
            /\ split' = NoSplit
            /\ ret' = Ret("benchmark", "raise")
            /\ UNCHANGED <<view, twister, np_random, split_ratio, new_to_old,
                           old_to_new, featureless, calls, probes, others>>
       ELSE
       \E consistent \in ConsistencyVerdicts(data.graph) :
       \E sp \in {Preprocess(data.graph, split_ratio, twister, np_random, consistent)} :
          /\ graph' = None
          /\ model' = "None"
          /\ predictor' = "None"
          /\ training_results' = <<>>
          /\ validation_results' = <<>>
          /\ np_random' = sp.rng
          /\ split' = sp
          /\ ret' = Ret("benchmark", IF sp.status = "None" THEN "failed" ELSE "raise")
          /\ UNCHANGED <<view, twister, split_ratio, new_to_old, old_to_new,
                         featureless, calls, probes, others>>

(***************************************************************************)
(* predict.                                                                *)
(***************************************************************************)
\* an id that is not a key given the next free index, as dict.setdefault would
LookupOrInsert(o2n, old_id) ==
    IF old_id \in DOMAIN o2n.map
    THEN [raises |-> FALSE, id |-> o2n.map[old_id]]
    ELSE [raises |-> FALSE, id |-> Cardinality(DOMAIN o2n.map)]

\* Lines 199-200: old_to_new[old_id] raises KeyError for an id that is not a key.
Lookup(o2n, old_id) ==
    IF old_id \in DOMAIN o2n.map
    THEN [raises |-> FALSE, id |-> o2n.map[old_id]]
    ELSE [raises |-> TRUE, id |-> -1]

\* Lines 195-204: both ids are in the mapping and there is a graph to ask.
Resolves(o2n, g, src_old_id, dest_old_id) ==
    /\ ~o2n.isNone
    /\ ~Lookup(o2n, src_old_id).raises
    /\ ~Lookup(o2n, dest_old_id).raises
    /\ ~g.isNone

\* link_prediction_util.predict returns torch.sigmoid(scores)[edge_id].item():
\* there is a model and a predictor to call, and a score at edge_id.
Scores(mdl, prd, g, edge_id) ==
    /\ mdl # "None"
    /\ prd # "None"
    /\ edge_id < NumberOfEdges(g)

\* graph.remove_edges(edge_id) raises on an id the graph does not have.
CanRemove(g, edge_id) == edge_id < NumberOfEdges(g)

\* Lines 207-214: the graph after the existence check and the probe edge.
WithProbe(g, src_id, dest_id) ==
    IF HasEdgesBetween(g, src_id, dest_id) THEN g ELSE AddEdges(g, src_id, dest_id)

\* the first edge removed instead of the probe edge
AfterScoreFirst(g, edge_added, edge_id) ==
    IF edge_added THEN RemoveEdges(g, {0}) ELSE g

\* the probe edge left in the graph
AfterScoreKeep(g, edge_added, edge_id) == g

\* Lines 223-224
AfterScore(g, edge_added, edge_id) ==
    IF edge_added THEN RemoveEdges(g, {edge_id}) ELSE g

Predict(sv, dv) ==
    /\ graph.isNone \/ NumberOfEdges(graph) < Len(view) + MaxStray
    /\ IF ~Resolves(old_to_new, graph, ExtId(sv), ExtId(dv))
       THEN /\ graph' = graph
            /\ ret' = RetPredict("raise", FALSE)
       ELSE LET src_id == Lookup(old_to_new, ExtId(sv)).id
                dest_id == Lookup(old_to_new, ExtId(dv)).id
                edge_added == ~HasEdgesBetween(graph, src_id, dest_id)
                g1 == WithProbe(graph, src_id, dest_id)
            IN \E edge_id \in EdgeIds(g1, src_id, dest_id) :
                  IF ~Scores(model, predictor, g1, edge_id)
                     \/ (edge_added /\ ~CanRemove(g1, edge_id))
                  THEN /\ graph' = g1
                       /\ ret' = RetPredict("raise", edge_added)
                  ELSE /\ graph' = AfterScore(g1, edge_added, edge_id)
                       /\ ret' = RetPredict("ok", edge_added)
    /\ split' = NoSplit
    /\ UNCHANGED <<view, twister, np_random, split_ratio, new_to_old, old_to_new,
                   model, predictor, training_results, validation_results,
                   featureless, calls, probes, others>>

(***************************************************************************)
(* set_model_parameters, train and benchmark called one at a time.         *)
(***************************************************************************)
RatioInputs == {[num |-> k, den |-> RatioDen] : k \in RatioNums}

Next ==
    \/ \E ratio \in RatioInputs : SetModelParameters(ratio)
    \/ \E trained \in BOOLEAN : Train(trained)
    \/ Benchmark

Spec == Init /\ [][Next]_vars

(***************************************************************************)
(* train, benchmark and predict called one at a time, with the default     *)
(* parameters.                                                             *)
(***************************************************************************)
ProbeVertices == 1 .. ProbeV

InitPredict ==
    /\ Init
    /\ twister = 0

NextPredict ==
    \/ \E trained \in BOOLEAN : Train(trained)
    \/ Benchmark
    \/ \E sv \in ProbeVertices, dv \in ProbeVertices : Predict(sv, dv)

SpecPredict == InitPredict /\ [][NextPredict]_vars

(***************************************************************************)
(* train and benchmark with the default parameters, over property graphs   *)
(* of which some vertices have no value under node_features_property.      *)
(***************************************************************************)
InitBuild ==
    /\ view \in Views(MaxEdges)
    /\ featureless \in SUBSET Vertices
    /\ twister = 0
    /\ np_random = Unseeded
    /\ split_ratio = DefaultSplitRatio
    /\ graph = None
    /\ new_to_old = NoMap
    /\ old_to_new = NoMap
    /\ model = "None"
    /\ predictor = "None"
    /\ ret = Ret("none", "none")
    /\ split = NoSplit
    /\ training_results = <<>>
    /\ validation_results = <<>>
    /\ calls = [c \in Callers |-> IdleCall]
    /\ probes = NoProbes
    /\ InitOthers

NextBuild ==
    \/ \E trained \in BOOLEAN : Train(trained)
    \/ Benchmark

SpecBuild == InitBuild /\ [][NextBuild]_vars

(***************************************************************************)
(* set_model_parameters called with any map, again and again.              *)
(***************************************************************************)
NextParams == \E p \in ParameterMaps : SetModelParametersMap(p)

InitParams ==
    /\ InitQuiet
    /\ InitOthers

SpecParams == InitParams /\ [][NextParams]_vars

(***************************************************************************)
(* link_prediction_util.train: the epoch loop.  The model, the predictor,  *)
(* the optimizer and the metric functions are library calls; of an epoch   *)
(* the model keeps the validation accuracy acc_val (a level 0 .. MaxAcc),  *)
(* the rows appended to the two result lists (their epoch and their keys)  *)
(* and whether optimizer.step() was reached.                               *)
(***************************************************************************)
\* metrics: List default of LinkPredictionParameters
DefaultMetrics ==
    <<"loss", "accuracy", "auc_score", "precision", "recall", "f1", "num_wrong_examples">>

\* Lines 410-417: every name, lowered, is one of the eight.
ValidMetrics(metrics) ==
    \A i \in DOMAIN metrics :
       Lower(metrics[i]) \in {"loss", "accuracy", "f1", "auc_score", "precision",
                              "recall", "specificity", "num_wrong_examples"}

\* the names a caller puts in a metrics list
MetricInputs == {"loss", "LOSS", "accuracy", "F1", "specificity", "bogus"}

\* the metrics lists set_model_parameters lets through
MetricLists ==
    {ms \in UNION {[1 .. n -> MetricInputs] : n \in 0 .. MaxMetrics} : ValidMetrics(ms)}

\* Lines 263-288: the keys of the row of an epoch, one per name of metrics
\* that is spelled as one of the seven branches.
RowKeys(metrics) ==
    {"epoch"} \cup
    {metrics[i] : i \in {j \in DOMAIN metrics :
                            metrics[j] \in {"loss", "accuracy", "auc_score", "f1",
                                            "precision", "recall", "num_wrong_examples"}}}

\* an accuracy equal to the best one reset the count as an improvement does
UpdatePatienceStrict(lp, acc_val) ==
    IF acc_val < lp.max_val_acc
    THEN [lp EXCEPT !.num_val_acc_drop = @ + 1]
    ELSE [lp EXCEPT !.max_val_acc = acc_val, !.num_val_acc_drop = 0]

\* Lines 294-300
UpdatePatience(lp, acc_val) ==
    IF acc_val <= lp.max_val_acc
    THEN [lp EXCEPT !.num_val_acc_drop = @ + 1]
    ELSE [lp EXCEPT !.max_val_acc = acc_val, !.num_val_acc_drop = 0]

\* Lines 262-290
LogRow(lp, epoch) ==
    IF epoch % lp.console_log_freq = 0
    THEN [lp EXCEPT !.training_results =
                        Append(@, [epoch |-> epoch, keys |-> RowKeys(lp.metrics)]),
                    !.validation_results =
                        Append(@, [epoch |-> epoch, keys |-> RowKeys(lp.metrics)])]
    ELSE lp

\* Lines 207-219: what the loop starts from
LoopStart(num_epochs, metrics, console_log_freq, tr_acc_patience) ==
    [pc |-> "loop", num_epochs |-> num_epochs, tr_acc_patience |-> tr_acc_patience,
     console_log_freq |-> console_log_freq, metrics |-> metrics, epoch |-> 0,
     max_val_acc |-> -1, num_val_acc_drop |-> 0, stopped |-> FALSE, steps |-> 0,
     acc_vals |-> <<>>, training_results |-> <<>>, validation_results |-> <<>>]

LoopFrame == UNCHANGED <<view, twister, np_random, split_ratio, graph, new_to_old,
                         old_to_new, model, predictor, ret, split, training_results,
                         validation_results, featureless, calls, probes,
                         link_prediction_parameters, parameters, nc, mst>>

\* Lines 221-310: one pass of the loop body, with validation accuracy acc_val.
\* The break of line 305 leaves before the optimizer step of lines 308-310.
Epoch(acc_val) ==
    /\ loop.pc = "loop"
    /\ ~loop.stopped
    /\ loop.epoch < loop.num_epochs
    /\ LET epoch == loop.epoch + 1
           logged == LogRow([loop EXCEPT !.epoch = epoch,
                                         !.acc_vals = Append(@, acc_val)], epoch)
           counted == UpdatePatience(logged, acc_val)
       IN IF counted.num_val_acc_drop = counted.tr_acc_patience
          THEN loop' = [counted EXCEPT !.stopped = TRUE]
          ELSE loop' = [counted EXCEPT !.steps = @ + 1]
    /\ LoopFrame

\* Line 315, after the break or after the last epoch of range(1, num_epochs + 1)
LoopReturn ==
    /\ loop.pc = "loop"
    /\ loop.stopped \/ loop.epoch = loop.num_epochs
    /\ loop' = [loop EXCEPT !.pc = "done"]
    /\ LoopFrame

NextLoop ==
    \/ \E acc_val \in 0 .. MaxAcc : Epoch(acc_val)
    \/ LoopReturn

\* The loop for every epoch count and patience validation accepts, with the
\* default metrics and console_log_freq.
InitLoop ==
    /\ InitQuiet
    /\ link_prediction_parameters = DefaultParameters
    /\ parameters = NoParameters
    /\ nc = NcInit
    /\ mst = IdleMst
    /\ \E num_epochs \in 1 .. MaxEpochs, tr_acc_patience \in 1 .. MaxPatience :
          loop = LoopStart(num_epochs, DefaultMetrics, 1, tr_acc_patience)

\* A call of train(), once under way, runs on: nothing in the loop waits.
SpecLoop == InitLoop /\ [][NextLoop]_vars /\ WF_vars(NextLoop)

\* The loop for every metrics list validation accepts and every
\* console_log_freq, with the default tr_acc_patience.
InitRows ==
    /\ InitQuiet
    /\ link_prediction_parameters = DefaultParameters
    /\ parameters = NoParameters
    /\ nc = NcInit
    /\ mst = IdleMst
    /\ \E num_epochs \in 1 .. MaxFreq, metrics \in MetricLists,
          console_log_freq \in 1 .. MaxFreq :
          loop = LoopStart(num_epochs, metrics, console_log_freq,
                           DefaultParameters.tr_acc_patience)

SpecRows == InitRows /\ [][NextLoop]_vars

(***************************************************************************)
(* node_classification: set_model_parameters, train, get_training_data     *)
(* and reset, over the globals global_params and logged_data and           *)
(* Modelling.data.  A row of logged_data is written as its epoch.          *)
(***************************************************************************)
NcFrame == UNCHANGED <<view, twister, np_random, split_ratio, graph, new_to_old,
                       old_to_new, model, predictor, ret, split, training_results,
                       validation_results, featureless, calls, probes,
                       link_prediction_parameters, parameters, loop, mst>>

\* set_model_parameters: a badly typed map raises before anything is bound
\* (lines 349-352); otherwise declare_globals binds global_params and
\* declare_model_and_data loads Modelling.data.
NcSetModelParameters(console_log_freq, typed) ==
    /\ IF ~typed
       THEN nc' = [nc EXCEPT !.ret = NcRet("set_model_parameters", "raise", <<>>)]
       ELSE nc' = [nc EXCEPT !.global_params =
                                 [defined |-> TRUE, console_log_freq |-> console_log_freq,
                                  num_epochs |-> NcNoParams.num_epochs],
                             !.data = TRUE,
                             !.ret = NcRet("set_model_parameters", "ok", <<>>)]
    /\ NcFrame

\* the epochs 1 .. ran of a training that console_log_freq divides
RECURSIVE NcLogged(_, _, _)
NcLogged(epoch, ran, console_log_freq) ==
    IF epoch > ran THEN <<>>
    ELSE (IF epoch % console_log_freq = 0 THEN <<epoch>> ELSE <<>>)
         \o NcLogged(epoch + 1, ran, console_log_freq)

\* train: ran is the number of epochs that reach the logging of lines
\* 445-471, all of them or those before the early stop of lines 430-436.
\* The rows are appended to the global logged_data, which the call returns
\* whole.
NcTrain(no_epochs, ran) ==
    /\ Len(nc.logged_data) + no_epochs <= MaxLog
    /\ ran <= no_epochs
    /\ IF ~nc.data
       THEN nc' = [nc EXCEPT !.ret = NcRet("train", "raise", <<>>)]
       ELSE LET rows == nc.logged_data
                        \o NcLogged(1, ran, nc.global_params.console_log_freq)
            IN nc' = [nc EXCEPT !.global_params.num_epochs = no_epochs,
                                !.logged_data = rows,
                                !.ret = NcRet("train", "ok", rows)]
    /\ NcFrame

\* get_training_data: one record per row of logged_data
NcGetTrainingData ==
    /\ nc' = [nc EXCEPT !.ret = NcRet("get_training_data", "ok", nc.logged_data)]
    /\ NcFrame

\* reset: globals is the builtin function, which has no attribute pop.  With
\* global_params bound line 631 raises AttributeError; without, line 634 does,
\* logged_data being bound from import on.  Nothing is removed.
NcReset ==
    /\ nc' = [nc EXCEPT !.ret = NcRet("reset", "raise", <<>>)]
    /\ NcFrame

NextNc ==
    \/ \E console_log_freq \in 1 .. MaxFreq, typed \in BOOLEAN :
          NcSetModelParameters(console_log_freq, typed)
    \/ \E no_epochs \in 1 .. MaxLog, ran \in 0 .. MaxLog : NcTrain(no_epochs, ran)
    \/ NcGetTrainingData
    \/ NcReset

InitNc ==
    /\ InitQuiet
    /\ InitOthers

SpecNc == InitNc /\ [][NextNc]_vars

(***************************************************************************)
(* igraphalg.spanning_tree: create_igraph_from_ctx numbers the vertices in *)
(* the order of ctx.graph.vertices, graph.spanning_tree() keeps a spanning *)
(* forest of the edges, and get_min_span_tree_vertex_pairs lists its       *)
(* vertex pairs, one pass of its outer loop at a time.                     *)
(***************************************************************************)
\* vertex.id: the database's own id of a vertex handle
VertexId(vtx) == 100 + 7 * (Cardinality(Vertices) - vtx)

\* Line 207: id_mapping = {vertex.id: i for i, vertex in enumerate(vertices)}
IdMapping == [id \in {VertexId(vtx) : vtx \in Vertices} |->
                 (CHOOSE vtx \in Vertices : VertexId(vtx) = id) - 1]

\* Lines 208-216: edge_list
EdgeList(edges) ==
    [k \in DOMAIN edges |-> <<IdMapping[VertexId(edges[k][1])],
                              IdMapping[VertexId(edges[k][2])]>>]

\* u and v are joined by an edge of edge_list with its index in ids
Joined(edge_list, ids, u, v) ==
    \E k \in ids : edge_list[k] = <<u, v>> \/ edge_list[k] = <<v, u>>

\* u and v are connected by at most len edges with their index in ids
RECURSIVE ConnectedIn(_, _, _, _, _)
ConnectedIn(edge_list, ids, u, v, len) ==
    \/ u = v
    \/ /\ len > 0
       /\ \E w \in 0 .. Cardinality(Vertices) - 1 :
             Joined(edge_list, ids, u, w) /\ ConnectedIn(edge_list, ids, w, v, len - 1)

\* graph.spanning_tree(weights): the graphs igraph can return, one for each
\* choice of edges (by index) that has no cycle, direction ignored, and
\* connects whatever the graph connects.
SpanningTrees(edge_list) ==
    LET n == Cardinality(Vertices)
        forest(ids) ==
            \A k \in ids :
               /\ edge_list[k][1] # edge_list[k][2]
               /\ ~ConnectedIn(edge_list, ids \ {k}, edge_list[k][1], edge_list[k][2], n)
        spans(ids) ==
            \A k \in DOMAIN edge_list :
               ConnectedIn(edge_list, ids, edge_list[k][1], edge_list[k][2], n)
        pick(ids) == LET F[k \in 0 .. Len(edge_list)] ==
                             IF k = 0 THEN <<>>
                             ELSE IF k \in ids THEN Append(F[k - 1], edge_list[k])
                             ELSE F[k - 1]
                     IN F[Len(edge_list)]
    IN {pick(ids) : ids \in {x \in SUBSET DOMAIN edge_list : forest(x) /\ spans(x)}}

\* min_span_tree_graph.neighbors(v): the other end of every edge at v,
\* whatever its direction, by increasing vertex id
RECURSIVE Neighbors(_, _, _)
Neighbors(tree, v, u) ==
    IF u >= Cardinality(Vertices) THEN <<>>
    ELSE [k \in 1 .. Cardinality({j \in DOMAIN tree : tree[j] = <<v, u>> \/ tree[j] = <<u, v>>})
             |-> u]
         \o Neighbors(tree, v, u + 1)

\* Lines 175-183: the inner loop over the neighbours nb[k ..] of vertex v
RECURSIVE ScanNeighbors(_, _, _, _)
ScanNeighbors(st, v, nb, k) ==
    IF k > Len(nb) THEN st
    ELSE LET neighbor == nb[k]
         IN IF <<v, neighbor>> \notin st.unique_edges_dict
               /\ <<neighbor, v>> \notin st.unique_edges_dict
            THEN ScanNeighbors(
                     [st EXCEPT !.min_span_tree = Append(@, <<v, neighbor>>),
                                !.unique_edges_dict = @ \cup {<<neighbor, v>>},
                                !.isolated = FALSE,
                                !.not_isolated_vertex_directed = @ \cup {neighbor}],
                     v, nb, k + 1)
            ELSE ScanNeighbors(st, v, nb, k + 1)

\* the vertex listed alone whenever it appended no pair of its own
ListedAloneByFlag(isolated, v, not_isolated_vertex_directed) == isolated

\* Line 185
ListedAlone(isolated, v, not_isolated_vertex_directed) ==
    isolated /\ v \notin not_isolated_vertex_directed

MstFrame == UNCHANGED <<view, twister, np_random, split_ratio, graph, new_to_old,
                        old_to_new, model, predictor, ret, split, training_results,
                        validation_results, featureless, calls, probes,
                        link_prediction_parameters, parameters, loop, nc>>

\* Lines 173-186: one pass of the outer loop, for the next vertex of
\* ctx.graph.vertices
MstVertex ==
    /\ mst.pc = "loop"
    /\ mst.i < Cardinality(Vertices)
    /\ LET vertex == mst.i + 1
           v == IdMapping[VertexId(vertex)]
           st == ScanNeighbors(
                     [min_span_tree |-> mst.min_span_tree,
                      unique_edges_dict |-> mst.unique_edges_dict,
                      not_isolated_vertex_directed |-> mst.not_isolated_vertex_directed,
                      isolated |-> TRUE],
                     v, Neighbors(mst.tree, v, 0), 1)
       IN mst' = [mst EXCEPT
                     !.i = @ + 1,
                     !.unique_edges_dict = st.unique_edges_dict,
                     !.not_isolated_vertex_directed = st.not_isolated_vertex_directed,
                     !.min_span_tree =
                         IF ListedAlone(st.isolated, v, st.not_isolated_vertex_directed)
                         THEN Append(st.min_span_tree, <<v>>)
                         ELSE st.min_span_tree]
    /\ MstFrame

\* Line 188
MstReturn ==
    /\ mst.pc = "loop"
    /\ mst.i = Cardinality(Vertices)
    /\ mst' = [mst EXCEPT !.pc = "done"]
    /\ MstFrame

NextMst ==
    \/ MstVertex
    \/ MstReturn

\* spanning_tree on any property graph, at the call of line 114
InitMst ==
    /\ view \in Views(MaxEdges)
    /\ twister = 0
    /\ np_random = Unseeded
    /\ split_ratio = DefaultSplitRatio
    /\ graph = None
    /\ new_to_old = NoMap
    /\ old_to_new = NoMap
    /\ model = "None"
    /\ predictor = "None"
    /\ ret = Ret("none", "none")
    /\ split = NoSplit
    /\ training_results = <<>>
    /\ validation_results = <<>>
    /\ featureless = {}
    /\ calls = [c \in Callers |-> IdleCall]
    /\ probes = NoProbes
    /\ link_prediction_parameters = DefaultParameters
    /\ parameters = NoParameters
    /\ loop = IdleLoop
    /\ nc = NcInit
    /\ \E tree \in SpanningTrees(EdgeList(view)) :
          mst = [IdleMst EXCEPT !.pc = "loop", !.tree = tree]

SpecMst == InitMst /\ [][NextMst]_vars

(***************************************************************************)
(* Two predict calls that overlap on the graph of a completed training,    *)
(* each taken one step at a time: lines 195-204 (resolve the ids), 207     *)
(* (has_edges_between), 213 (add_edges), 209 or 214 (edge_ids), 219 (the   *)
(* score) and 223-224 (remove_edges).                                      *)
(***************************************************************************)
Active(c) == calls[c].pc \notin {"idle", "done", "failed"}

Ended(c) == calls[c].pc \in {"done", "failed"}

OwnerAt(edge_id) ==
    IF edge_id + 1 \in DOMAIN probes.owner THEN probes.owner[edge_id + 1] ELSE -1

StepFrame == UNCHANGED <<view, twister, np_random, split_ratio, new_to_old,
                         old_to_new, model, predictor, ret, split,
                         training_results, validation_results, featureless,
                         others>>

PStart(c, sv, dv) ==
    /\ calls[c].pc = "idle"
    /\ IF Resolves(old_to_new, graph, ExtId(sv), ExtId(dv))
       THEN calls' = [calls EXCEPT ![c].pc = "check",
                                   ![c].src_id = Lookup(old_to_new, ExtId(sv)).id,
                                   ![c].dest_id = Lookup(old_to_new, ExtId(dv)).id]
       ELSE calls' = [calls EXCEPT ![c].pc = "failed"]
    /\ probes' = [probes EXCEPT !.overlapped = @ \/ \E d \in Callers \ {c} : Active(d)]
    /\ UNCHANGED graph
    /\ StepFrame

PCheck(c) ==
    /\ calls[c].pc = "check"
    /\ IF HasEdgesBetween(graph, calls[c].src_id, calls[c].dest_id)
       THEN calls' = [calls EXCEPT ![c].pc = "eid"]
       ELSE calls' = [calls EXCEPT ![c].pc = "add", ![c].edge_added = TRUE]
    /\ UNCHANGED <<graph, probes>>
    /\ StepFrame

PAdd(c) ==
    /\ calls[c].pc = "add"
    /\ graph' = AddEdges(graph, calls[c].src_id, calls[c].dest_id)
    /\ probes' = [probes EXCEPT !.owner = Append(@, c)]
    /\ calls' = [calls EXCEPT ![c].pc = "eid"]
    /\ StepFrame

\* edge_ids raises when there is no such edge any more.
PEdgeId(c) ==
    /\ calls[c].pc = "eid"
    /\ LET ids == EdgeIds(graph, calls[c].src_id, calls[c].dest_id)
       IN IF ids = {}
          THEN calls' = [calls EXCEPT ![c].pc = "failed"]
          ELSE \E edge_id \in ids :
                  calls' = [calls EXCEPT ![c].pc = "score", ![c].edge_id = edge_id]
    /\ UNCHANGED <<graph, probes>>
    /\ StepFrame

PScore(c) ==
    /\ calls[c].pc = "score"
    /\ IF Scores(model, predictor, graph, calls[c].edge_id)
       THEN calls' = [calls EXCEPT ![c].pc = "remove",
                                   ![c].scored = OwnerAt(calls[c].edge_id)]
       ELSE calls' = [calls EXCEPT ![c].pc = "failed"]
    /\ UNCHANGED <<graph, probes>>
    /\ StepFrame

PRemove(c) ==
    /\ calls[c].pc = "remove"
    /\ IF ~calls[c].edge_added
       THEN /\ calls' = [calls EXCEPT ![c].pc = "done"]
            /\ UNCHANGED <<graph, probes>>
       ELSE IF ~CanRemove(graph, calls[c].edge_id)
       THEN /\ calls' = [calls EXCEPT ![c].pc = "failed"]
            /\ UNCHANGED <<graph, probes>>
       ELSE /\ graph' = AfterScore(graph, TRUE, calls[c].edge_id)
            /\ probes' = [probes EXCEPT !.owner = DropIds(@, {calls[c].edge_id}, 1)]
            /\ calls' = [calls EXCEPT ![c].pc = "done",
                                      ![c].removed = OwnerAt(calls[c].edge_id)]
    /\ StepFrame

\* The state a completed train call leaves, for a property graph on which
\* preprocess succeeds.
InitOverlap ==
    /\ featureless = {}
    /\ training_results = LoggedEpochs
    /\ validation_results = LoggedEpochs
    /\ \E vw \in Views(MaxEdges) :
       \E data \in {GetDglGraphData([edges |-> vw, featureless |-> {}])} :
       \E sp \in {Preprocess(data.graph, DefaultSplitRatio, 0, Unseeded, TRUE)} :
          /\ sp.status = "ok"
          /\ view = vw
          /\ twister = 0
          /\ np_random = sp.rng
          /\ split_ratio = DefaultSplitRatio
          /\ graph = data.graph
          /\ new_to_old = data.new_to_old
          /\ old_to_new = data.old_to_new
          /\ model = "module"
          /\ predictor = "module"
          /\ ret = Ret("train", "ok")
          /\ split = sp
          /\ calls = [c \in Callers |-> IdleCall]
          /\ probes = [owner |-> [i \in 1 .. Len(data.graph.edges) |-> 0],
                       overlapped |-> FALSE]
    /\ InitOthers

NextOverlap ==
    \E c \in Callers :
       \/ \E sv \in ProbeVertices, dv \in ProbeVertices : PStart(c, sv, dv)
       \/ PCheck(c)
       \/ PAdd(c)
       \/ PEdgeId(c)
       \/ PScore(c)
       \/ PRemove(c)

SpecOverlap == InitOverlap /\ [][NextOverlap]_vars

(***************************************************************************)
(* Properties.                                                             *)
(***************************************************************************)
\* the external ids that occur as an endpoint of an edge of the view
SeenIds == {ExtId(e[1]) : e \in Range(view)} \cup {ExtId(e[2]) : e \in Range(view)}

EdgeSet(g) == Range(g.edges)

Unordered(g) == {{e[1], e[2]} : e \in Range(g.edges)}

SplitDone == split.status = "ok"

\* C1: after the build, old_to_new and new_to_old are inverse bijections
\* between the external ids seen on an edge and the dense indices 0 .. N - 1.
C1_Bijection ==
    ~old_to_new.isNone =>
        LET o2n == old_to_new.map
            n2o == new_to_old.map
            nn == Cardinality(SeenIds)
        IN /\ DOMAIN o2n = SeenIds
           /\ DOMAIN n2o = 0 .. nn - 1
           /\ \A id \in SeenIds : o2n[id] \in DOMAIN n2o /\ n2o[o2n[id]] = id
           /\ \A i \in DOMAIN n2o : n2o[i] \in SeenIds /\ o2n[n2o[i]] = i
           /\ ~graph.isNone => graph.n = nn

\* built from two or more edges over three ids, so that an id is met again
C1_Witness ==
    /\ ~old_to_new.isNone
    /\ Len(view) >= 2
    /\ Cardinality(DOMAIN old_to_new.map) = 3

\* C2 as stated: as sets of unordered pairs, positive-train and positive-test
\* are disjoint and their union is the edge set of the original graph.
C2_UnorderedPartition ==
    SplitDone =>
        /\ Unordered(split.train_pos_g) \cap Unordered(split.test_pos_g) = {}
        /\ Unordered(split.train_pos_g) \cup Unordered(split.test_pos_g) = Unordered(split.orig)

\* C2 amended: as sets of directed pairs (src, dest), positive-train and
\* positive-test are disjoint, their union is the edge set of the original
\* graph, and no edge is counted twice.
C2_DirectedPartition ==
    SplitDone =>
        /\ EdgeSet(split.train_pos_g) \cap EdgeSet(split.test_pos_g) = {}
        /\ EdgeSet(split.train_pos_g) \cup EdgeSet(split.test_pos_g) = EdgeSet(split.orig)
        /\ Len(split.train_pos_g.edges) + Len(split.test_pos_g.edges) = Len(split.orig.edges)

C2_Witness ==
    /\ SplitDone
    /\ split.train_pos_g.edges # <<>>
    /\ split.test_pos_g.edges # <<>>

\* C3: the training graph holds exactly the positive-train edges: no edge of
\* the positive-test partition is in it and every other edge still is.
C3_NoLeakage ==
    SplitDone =>
        /\ EdgeSet(split.train_g) = EdgeSet(split.train_pos_g)
        /\ Len(split.train_g.edges) = Len(split.train_pos_g.edges)
        /\ EdgeSet(split.train_g) \cap EdgeSet(split.test_pos_g) = {}
        /\ \A e \in EdgeSet(split.orig) :
              e \notin EdgeSet(split.test_pos_g) => e \in EdgeSet(split.train_g)

C3_Witness ==
    /\ SplitDone
    /\ Len(split.test_pos_g.edges) = 1
    /\ Len(split.train_g.edges) = 1
    /\ split.train_g.edges # split.orig.edges

NegPairs == EdgeSet(split.train_neg_g) \cup EdgeSet(split.test_neg_g)

\* C4 as stated: no sampled negative pair (a, b) has an edge a -> b or b -> a
\* in the original graph.
C4_NoEdgeEitherDirection ==
    SplitDone =>
        \A p \in NegPairs :
            /\ <<p[1], p[2]>> \notin EdgeSet(split.orig)
            /\ <<p[2], p[1]>> \notin EdgeSet(split.orig)

\* C4 amended: no sampled negative pair (a, b) is an edge a -> b of the
\* original graph, and both of its indices are nodes of the graph.
C4_NoEdgeSameDirection ==
    SplitDone =>
        \A p \in NegPairs :
            /\ <<p[1], p[2]>> \notin EdgeSet(split.orig)
            /\ p[1] \in 0 .. split.orig.n - 1
            /\ p[2] \in 0 .. split.orig.n - 1

\* a sampled negative pair whose reverse is an edge
C4_Witness ==
    /\ SplitDone
    /\ \E p \in NegPairs : <<p[2], p[1]>> \in EdgeSet(split.orig)

\* C5: no sampled negative pair has equal source and destination; a graph
\* with a self-loop edge is no exception, as its split never completes.
C5_NoSelfPair ==
    /\ SplitDone => \A p \in NegPairs : p[1] # p[2]
    /\ (\E e \in Range(view) : e[1] = e[2]) => ~SplitDone

C5_Witness ==
    /\ SplitDone
    /\ split.train_neg_g.edges # <<>>
    /\ split.test_neg_g.edges # <<>>

InUnitInterval(ratio) == ratio.num > 0 /\ ratio.num < ratio.den

\* C6 as stated: for a split ratio in (0, 1) the positive-test partition has
\* round(|E| * (1 - split_ratio)) edges, round half to even.
C6_RoundedTestSize ==
    SplitDone /\ InUnitInterval(split_ratio) =>
        Len(split.test_pos_g.edges) =
            PyRound(Len(split.orig.edges) * (split_ratio.den - split_ratio.num), split_ratio.den)

\* C6 amended: for a split ratio in (0, 1) the positive-test partition has
\* floor(|E| * (1 - split_ratio)) edges: the largest integer t with
\* t <= |E| * (1 - split_ratio).
C6_TruncatedTestSize ==
    SplitDone /\ InUnitInterval(split_ratio) =>
        LET t == Len(split.test_pos_g.edges)
            p == Len(split.orig.edges) * (split_ratio.den - split_ratio.num)
        IN /\ t * split_ratio.den <= p
           /\ p < (t + 1) * split_ratio.den

\* a product with a fractional part, cut to a test partition that is not empty
C6_Witness ==
    /\ SplitDone
    /\ InUnitInterval(split_ratio)
    /\ (Len(split.orig.edges) * (split_ratio.den - split_ratio.num)) % split_ratio.den # 0
    /\ Len(split.test_pos_g.edges) >= 1

\* C7: for every accepted split ratio the test size is an integer in
\* 0 .. |E| and the positive-test partition holds that many edges.
C7_TestSizeInRange ==
    SplitDone /\ ValidSplitRatio(split_ratio) =>
        /\ split.test_size \in 0 .. Len(split.orig.edges)
        /\ Len(split.test_pos_g.edges) = split.test_size

\* C8: |E| negative pairs are sampled and cut where the positive edges are.
C8_NegativeSizes ==
    SplitDone =>
        /\ Len(split.test_neg_g.edges) = Len(split.test_pos_g.edges)
        /\ Len(split.train_neg_g.edges) = Len(split.train_pos_g.edges)
        /\ Len(split.train_neg_g.edges) + Len(split.test_neg_g.edges) = Len(split.orig.edges)

C8_Witness ==
    /\ SplitDone
    /\ Len(split.test_neg_g.edges) = 1
    /\ Len(split.train_neg_g.edges) = 1
    /\ Len(split.orig.edges) = 2

\* the graph the last build made of the view
Built == GetDglGraphData(Ctx).graph

\* C9: a predict call that returns a score leaves the edge list of the graph
\* as it found it, whether it added a probe edge or not: the edge count and
\* the pair at every edge id are the same.
C9_GraphRestored ==
    [][(ret'.op = "predict" /\ ret'.status = "ok") => graph' = graph]_vars

\* a scored call that added and removed a probe edge beside two trained edges
C9_Witness ==
    /\ ret = RetPredict("ok", TRUE)
    /\ NumberOfEdges(graph) >= 2
    /\ graph = Built

AllEnded == \A c \in Callers : Ended(c)

StrayProbe == NumberOfEdges(graph) > NumberOfEdges(Built)

\* the call scored or removed an edge id that was not its own probe edge
WrongEdge(c) ==
    \/ calls[c].edge_added /\ calls[c].scored \notin {-1, c}
    \/ calls[c].edge_added /\ calls[c].removed \notin {-1, c}
    \/ ~calls[c].edge_added /\ calls[c].scored \notin {-1, 0}

\* C10: two predict calls can end with a stray probe edge in the graph or
\* with a call that scored or removed an edge id not its own (the witness);
\* whenever that has happened, the calls overlapped, and calls that did not
\* overlap leave the graph as the training built it.
C10_DamageNeedsOverlap ==
    /\ (\E c \in Callers : WrongEdge(c)) => probes.overlapped
    /\ AllEnded /\ StrayProbe => probes.overlapped
    /\ AllEnded /\ ~probes.overlapped => graph = Built

\* both calls have ended, a probe edge is still in the graph, and one call
\* removed the probe edge of the other
C10_Witness ==
    /\ AllEnded
    /\ StrayProbe
    /\ \E c \in Callers : calls[c].edge_added /\ calls[c].removed \notin {-1, c}

\* C11: a predict call for a vertex whose external id is not a key of the
\* mapping of the last training raises, adds no probe edge, and leaves the
\* graph, the model, the predictor and both mappings as they were.
C11_UnknownVertexFails ==
    [][\A sv \in ProbeVertices, dv \in ProbeVertices :
          (/\ Predict(sv, dv)
           /\ ~old_to_new.isNone
           /\ ExtId(sv) \notin DOMAIN old_to_new.map
                 \/ ExtId(dv) \notin DOMAIN old_to_new.map)
          => /\ ret' = RetPredict("raise", FALSE)
             /\ graph' = graph
             /\ model' = model
             /\ predictor' = predictor
             /\ new_to_old' = new_to_old
             /\ old_to_new' = old_to_new]_vars

\* a trained model and graph, and a predict call that raised: with both in
\* place the call can only have failed on an id the mapping does not have
C11_Witness ==
    /\ ret = RetPredict("raise", FALSE)
    /\ model = "module"
    /\ predictor = "module"
    /\ ~graph.isNone
    /\ graph = Built
    /\ \E v \in ProbeVertices : ExtId(v) \notin DOMAIN old_to_new.map

\* C12: when the consistency check fails, preprocess returns None for all
\* five graphs, and the train (or benchmark) call returns "Preprocessing
\* failed" with no training: model and predictor are None and both result
\* lists are empty.
C12_CheckFailureStopsTrain ==
    split.status = "None" =>
        /\ split.train_g = None
        /\ split.train_pos_g = None
        /\ split.train_neg_g = None
        /\ split.test_pos_g = None
        /\ split.test_neg_g = None
        /\ ret.op \in {"train", "benchmark"}
        /\ ret.status = "failed"
        /\ model = "None"
        /\ predictor = "None"
        /\ training_results = <<>>
        /\ validation_results = <<>>

\* a train call whose consistency check failed
C12_Witness ==
    /\ split.status = "None"
    /\ ret = Ret("train", "failed")
    /\ ~graph.isNone

\* the graph has an edge for every ordered pair of distinct nodes, once each
EmptyPool(g) ==
    /\ ~g.isNone
    /\ g.n >= 2
    /\ NumberOfEdges(g) = g.n * (g.n - 1)
    /\ \A a \in 0 .. g.n - 1, b \in 0 .. g.n - 1 : a # b => HasEdgesBetween(g, a, b)

\* C13: when the negative-candidate pool is empty, train returns a failure
\* status to the caller, with no training performed.
C13_EmptyPoolStatus ==
    (ret.op = "train" /\ EmptyPool(graph)) =>
        /\ ret.status = "failed"
        /\ model = "None"
        /\ predictor = "None"

\* the external ids in the order the scan meets them: edge by edge, the
\* source before the destination
Endpoints ==
    [k \in 1 .. 2 * Len(view) |->
        ExtId(view[(k + 1) \div 2][IF k % 2 = 1 THEN 1 ELSE 2])]

\* where the scan meets id for the first time
FirstAt(id) ==
    CHOOSE k \in DOMAIN Endpoints :
        Endpoints[k] = id /\ \A j \in 1 .. k - 1 : Endpoints[j] # id

\* C14: the build gives each external id, the first time the scan meets it
\* (vertices in view order, their out-edges in order, source before
\* destination), the next unused index 0, 1, 2, ..., and an id met again
\* keeps its index: the index of an id is the number of distinct ids met
\* before it, and every edge carries the indices of its two endpoints.
C14_FirstSeenOrder ==
    ~old_to_new.isNone =>
        /\ \A id \in DOMAIN old_to_new.map :
              old_to_new.map[id] =
                  Cardinality({Endpoints[j] : j \in 1 .. FirstAt(id) - 1})
        /\ ~graph.isNone =>
              \A i \in 1 .. Len(view) :
                  graph.edges[i] = <<old_to_new.map[ExtId(view[i][1])],
                                     old_to_new.map[ExtId(view[i][2])]>>

\* the edges 1 -> 3 and 2 -> 1: the destination of the first edge is indexed
\* before the source of the second, and vertex 1 is met again
C14_Witness ==
    /\ ~old_to_new.isNone
    /\ ~graph.isNone
    /\ Len(view) >= 2
    /\ view[1] = <<1, 3>>
    /\ view[2] = <<2, 1>>
    /\ old_to_new.map[ExtId(3)] = 1
    /\ old_to_new.map[ExtId(2)] = 2
    /\ graph.edges[2] = <<2, 0>>

\* C15: in a graph the build returns, every index an edge refers to lies in
\* 0 .. N - 1, there are N feature rows, and row i is the feature of the
\* vertex whose external id is new_to_old[i].
C15_FeatureRows ==
    (~graph.isNone /\ ~new_to_old.isNone) =>
        LET nn == Cardinality(DOMAIN new_to_old.map)
        IN /\ \A e \in Range(graph.edges) :
                 e[1] \in 0 .. nn - 1 /\ e[2] \in 0 .. nn - 1
           /\ graph.n = nn
           /\ Len(graph.ndata) = nn
           /\ \A i \in 0 .. nn - 1 :
                 \E v \in Vertices \ featureless :
                    /\ ExtId(v) = new_to_old.map[i]
                    /\ graph.ndata[i + 1] = Features(Ctx, v).value

\* three rows, in an order that is not the order of the vertices
C15_Witness ==
    /\ ~graph.isNone
    /\ Len(graph.ndata) = 3
    /\ graph.ndata[2] = Features(Ctx, 3).value
    /\ graph.ndata[3] = Features(Ctx, 2).value

\* C16: the five graphs of a completed split have the node count of the
\* graph that was split, also when a partition is empty or has no edge at
\* the node with the highest index.
C16_NodeCounts ==
    SplitDone =>
        /\ split.train_g.n = split.orig.n
        /\ split.train_pos_g.n = split.orig.n
        /\ split.train_neg_g.n = split.orig.n
        /\ split.test_pos_g.n = split.orig.n
        /\ split.test_neg_g.n = split.orig.n

\* three nodes, and a positive-test partition whose edges stay clear of the
\* node with the highest index
C16_Witness ==
    /\ SplitDone
    /\ split.orig.n = 3
    /\ split.test_pos_g.edges # <<>>
    /\ \A e \in Range(split.test_pos_g.edges) : e[1] # 2 /\ e[2] # 2

\* the locals of the build after the first k edges of the view
ScanAfter(k) == BuildScan(BuildStart, [Ctx EXCEPT !.edges = SubSeq(view, 1, k)], 1)

\* a vertex with no feature value is an endpoint of an edge
FeatureMissing == \E v \in featureless : ExtId(v) \in SeenIds

\* C17 as stated: the build fails when a vertex with no feature value is
\* first given an index, and never holds the missing feature as a row while
\* it goes on to assign further indices.
C17_FailsAtFirstAssignment ==
    ret.op \in {"train", "benchmark"} =>
        /\ FeatureMissing => ret.status = "raise"
        /\ \A k \in 0 .. Len(view) :
              (\E i \in DOMAIN ScanAfter(k).features : ScanAfter(k).features[i].isNone)
                  => ScanAfter(Len(view)).ind = ScanAfter(k).ind

\* C17 amended: a build over a vertex that has no feature value and is an
\* endpoint of an edge raises, at the conversion of the rows after the scan,
\* and returns nothing: the call ends with no graph, no model and the
\* mappings it found; no build returns a graph with a row for a missing
\* feature.
C17_MissingFeatureRaises ==
    ret.op \in {"train", "benchmark"} =>
        /\ FeatureMissing =>
              /\ ret.status = "raise"
              /\ graph.isNone
              /\ new_to_old.isNone
              /\ old_to_new.isNone
              /\ model = "None"
              /\ split = NoSplit
        /\ ~graph.isNone => \A i \in DOMAIN graph.ndata : graph.ndata[i] \in {<<v>> : v \in Vertices}

\* a train call over two or more edges that raised for a missing feature, the
\* scan having given an index to every vertex
C17_Witness ==
    /\ ret = Ret("train", "raise")
    /\ FeatureMissing
    /\ Len(view) >= 2
    /\ ScanAfter(1).ind < ScanAfter(Len(view)).ind
    /\ \E i \in DOMAIN ScanAfter(1).features : ScanAfter(1).features[i].isNone

\* C18: a completed split is the one a preprocess call makes of the same
\* graph and split ratio with a generator nothing has drawn from: the five
\* graphs do not depend on the calls made before, so two calls on the same
\* graph with the same ratio return the same five graphs.
C18_Reproducible ==
    SplitDone =>
        LET fresh == Preprocess(split.orig, split_ratio, twister, Unseeded, TRUE)
        IN /\ split.train_g = fresh.train_g
           /\ split.train_pos_g = fresh.train_pos_g
           /\ split.train_neg_g = fresh.train_neg_g
           /\ split.test_pos_g = fresh.test_pos_g
           /\ split.test_neg_g = fresh.test_neg_g

\* a completed split of two or more edges, with a test partition, by a call
\* that found a generator earlier calls had drawn from
C18_Witness ==
    /\ SplitDone
    /\ split.entry.seed = Seed
    /\ split.entry.pos > 0
    /\ Len(split.orig.edges) >= 2
    /\ split.test_pos_g.edges # <<>>

\* C19: a build of the view that follows an earlier build of the same view
\* returns the mappings and the edge list the earlier one returned, whatever
\* the earlier one left in the globals.
C19_BuildIdempotent ==
    [][(ret'.op = "train" /\ ~old_to_new.isNone)
          => /\ old_to_new' = old_to_new
             /\ new_to_old' = new_to_old
             /\ ~graph'.isNone
             /\ ~graph.isNone => graph'.edges = graph.edges /\ graph'.n = graph.n]_vars

\* a train call over three vertices that came after an earlier split, and so
\* after an earlier build
C19_Witness ==
    /\ ret.op = "train"
    /\ split.entry.seed = Seed
    /\ ~graph.isNone
    /\ Len(graph.edges) >= 2
    /\ Cardinality(DOMAIN old_to_new.map) = 3

\* the vertices that are an endpoint of an edge of the view
Connected == {v \in Vertices : \E e \in Range(view) : e[1] = v \/ e[2] = v}

\* C20: a vertex with no edge is given no index: its external id is not a
\* key of old_to_new, and N is the number of vertices that are an endpoint
\* of an edge.
C20_IsolatedUnindexed ==
    ~old_to_new.isNone =>
        /\ \A v \in Vertices \ Connected : ExtId(v) \notin DOMAIN old_to_new.map
        /\ Cardinality(DOMAIN old_to_new.map) = Cardinality(Connected)
        /\ Cardinality(DOMAIN new_to_old.map) = Cardinality(Connected)
        /\ ~graph.isNone => graph.n = Cardinality(Connected)

\* a build that returned for a view in which vertex 2 has no edge, and no
\* feature either
C20_Witness ==
    /\ ~old_to_new.isNone
    /\ ~graph.isNone
    /\ Connected = {1, 3}
    /\ 2 \in featureless

\* every value the map gives passes the check of its own key
GivenValid(p) ==
    /\ "num_epochs" \in p.given => p.val.num_epochs > 0
    /\ "split_ratio" \in p.given => ValidSplitRatio(p.val.split_ratio)
    /\ "device_type" \in p.given => Lower(p.val.device_type) = "cpu"
    /\ "tr_acc_patience" \in p.given => p.val.tr_acc_patience > 0

\* the stored parameters after a call equal the values of the keys in set and
\* the earlier values of the other keys
StoredAs(p, set) ==
    /\ link_prediction_parameters'.num_epochs =
          IF "num_epochs" \in set THEN p.val.num_epochs
          ELSE link_prediction_parameters.num_epochs
    /\ split_ratio' = IF "split_ratio" \in set THEN p.val.split_ratio ELSE split_ratio
    /\ link_prediction_parameters'.device_type =
          IF "device_type" \in set THEN p.val.device_type
          ELSE link_prediction_parameters.device_type
    /\ link_prediction_parameters'.tr_acc_patience =
          IF "tr_acc_patience" \in set THEN p.val.tr_acc_patience
          ELSE link_prediction_parameters.tr_acc_patience

\* C21: a set_model_parameters call that gives valid values for any subset of
\* the parameter keys, and no other key, returns success, stores the given
\* values and leaves every parameter it does not name as it was.
C21_SubsetAccepted ==
    [][(/\ SetModelParametersMap(parameters')
        /\ ~parameters'.unknown
        /\ GivenValid(parameters'))
       => /\ ret'.status = "ok"
          /\ StoredAs(parameters', parameters'.given)]_vars

\* C28: a set_model_parameters call that returns a failure status, for a value
\* that fails validation or for a key that is no attribute of
\* LinkPredictionParameters, leaves every stored parameter as it was.
C28_FailureKeepsParameters ==
    [][(/\ SetModelParametersMap(parameters')
        /\ ret'.status = "failed")
       => StoredAs(parameters', {})]_vars


\* C22: every training and validation row holds the key epoch and a key for
\* each name of the metrics list the loop was given, for every metrics list
\* that parameter validation accepts.
C22_RowKeys ==
    \A row \in Range(loop.training_results) \cup Range(loop.validation_results) :
       /\ "epoch" \in row.keys
       /\ \A i \in DOMAIN loop.metrics : loop.metrics[i] \in row.keys

\* the best validation accuracy of the epochs before epoch k (-1.0 before the first)
BestBefore(k) == SetMax({-1} \cup {loop.acc_vals[j] : j \in 1 .. k - 1})

\* epoch k did not exceed the best accuracy seen before it
FailsToImprove(k) == loop.acc_vals[k] <= BestBefore(k)

\* epoch k is the last of tr_acc_patience epochs in a row that did not improve
PatienceOut(k) ==
    /\ k >= loop.tr_acc_patience
    /\ \A j \in k - loop.tr_acc_patience + 1 .. k : FailsToImprove(j)

\* the loop never runs more than num_epochs epochs; it has stopped early exactly
\* when the epoch just run is the first to end tr_acc_patience epochs in a row
\* without an improvement; optimizer.step() ran in every epoch but that one
LoopWithinPatience ==
    loop.pc # "idle" =>
       /\ loop.epoch <= loop.num_epochs
       /\ Len(loop.acc_vals) = loop.epoch
       /\ \A k \in 1 .. loop.epoch - 1 : ~PatienceOut(k)
       /\ loop.stopped <=> (loop.epoch >= 1 /\ PatienceOut(loop.epoch))
       /\ loop.steps = loop.epoch - (IF loop.stopped THEN 1 ELSE 0)
       /\ loop.pc = "done" => loop.stopped \/ loop.epoch = loop.num_epochs

\* C29: the training loop ends after at most num_epochs epochs, and it stops
\* early exactly at the first epoch at which validation accuracy has failed to
\* exceed the best accuracy so far for tr_acc_patience epochs in a row (an
\* equal accuracy is a failure, an improvement resets the count), with no
\* optimizer step in the epoch that stops it.
C29_StopsByPatience == []LoopWithinPatience /\ <>(loop.pc = "done")

\* The loop has stopped before num_epochs, with a patience of two epochs,
\* after an improvement that reset the count and on an accuracy equal to the
\* best one.
C29_Witness ==
    /\ loop.pc = "done"
    /\ loop.stopped
    /\ loop.epoch < loop.num_epochs
    /\ loop.tr_acc_patience = 2
    /\ \E k \in 2 .. loop.epoch - 2 : ~FailsToImprove(k) /\ FailsToImprove(k - 1)
    /\ loop.acc_vals[loop.epoch] = BestBefore(loop.epoch)


\* C23: reset, called after set_model_parameters and train, removes the
\* global parameters and the logged training data and returns the status
\* record that says so, and a get_training_data call that follows it returns
\* no row of the earlier training.
C23_ResetClears ==
    [][/\ (NcReset /\ nc.global_params.defined /\ nc.logged_data # <<>>)
          => /\ nc'.ret.status = "ok"
             /\ ~nc'.global_params.defined
             /\ nc'.logged_data = <<>>
       /\ (NcGetTrainingData /\ nc.ret.op = "reset") => nc'.ret.rows = <<>>]_vars


\* C24: for every graph the build hands to preprocess, the dense adjacency
\* matrix after squarify is square with side N, the number of nodes; every
\* entry of the matrix before padding is at the same row and column, and
\* every padded cell is 0.
C24_SquareOfNodeCount ==
    (split.status # "none" /\ NumberOfEdges(split.orig) > 0) =>
       LET dense == CooToDense(split.orig.edges)
           adj_matrix == Squarify(dense, 0)
       IN /\ adj_matrix.rows = split.orig.n
          /\ adj_matrix.cols = split.orig.n
          /\ DOMAIN adj_matrix.at = (0 .. split.orig.n - 1) \X (0 .. split.orig.n - 1)
          /\ \A c \in DOMAIN adj_matrix.at :
                adj_matrix.at[c] = IF c[1] < dense.rows /\ c[2] < dense.cols
                                   THEN dense.at[c] ELSE 0

\* A split has been made of a graph whose highest-indexed node is only ever
\* a source: the matrix had fewer columns than rows and was padded.
C24_Witness ==
    /\ split.status = "ok"
    /\ CooToDense(split.orig.edges).cols < CooToDense(split.orig.edges).rows
    /\ CooToDense(split.orig.edges).rows = split.orig.n


\* C25: on a graph that passed the adjacency consistency check the assertion
\* of preprocess holds: the number of edges plus the number of negative
\* candidate pairs is N * (N - 1), self-loops and repeated edges included.
C25_AssertionHolds ==
    (split.status \notin {"none", "None"} /\ NumberOfEdges(split.orig) > 0) =>
       SplitAssert(NumberOfEdges(split.orig),
                   Len(WhereNonZero(AdjMatrix(split.orig), 0)), split.orig.n)


\* C26: in every state reached by train, benchmark and predict calls the
\* trained state is all or nothing: the global graph is set exactly when the
\* model and the predictor are set.
C26_AllOrNothing ==
    (~graph.isNone) <=> (model # "None" /\ predictor # "None")

\* C27: a predict call that has added a probe edge and whose scoring fails
\* still reverts the graph: after the failed call the graph has the edge list
\* it had before the call.
C27_FailedScoreReverts ==
    [][\A sv \in ProbeVertices, dv \in ProbeVertices :
          (Predict(sv, dv) /\ ret'.status = "raise" /\ ret'.edge_added)
          => /\ NumberOfEdges(graph') = NumberOfEdges(graph)
             /\ graph'.edges = graph.edges]_vars


\* how often the entry is in the returned list
Listed(entry) ==
    Cardinality({k \in DOMAIN mst.min_span_tree : mst.min_span_tree[k] = entry})

\* the vertices of the igraph graph that have an edge of the tree
OnTree == {e[1] : e \in Range(mst.tree)} \cup {e[2] : e \in Range(mst.tree)}

\* C30: get_min_span_tree_vertex_pairs lists every edge of the spanning tree
\* exactly once as a pair, not once per direction; it lists every vertex
\* without a tree edge exactly once as an entry of one element, and never
\* lists a vertex that has a tree edge that way.
C30_PairsOnce ==
    mst.pc = "done" =>
       /\ \A e \in Range(mst.tree) : Listed(e) + Listed(<<e[2], e[1]>>) = 1
       /\ \A v \in 0 .. Cardinality(Vertices) - 1 :
             Listed(<<v>>) = IF v \in OnTree THEN 0 ELSE 1
       /\ Len(mst.min_span_tree) =
             Len(mst.tree) + Cardinality((0 .. Cardinality(Vertices) - 1) \ OnTree)

\* The list has been returned for a tree of one edge beside a vertex without
\* any: the later end of the edge appended no pair of its own and is kept
\* from the list only by having been seen as a neighbour.
C30_Witness ==
    /\ mst.pc = "done"
    /\ Len(mst.tree) = 1
    /\ Cardinality(OnTree) = 2
    /\ \E v \in OnTree : \A k \in DOMAIN mst.min_span_tree : mst.min_span_tree[k][1] # v


====
